---- MODULE Spec2Model ----
(***************************************************************************)
(* Model of pants.java.executor: Executor, CommandLineGrabber and          *)
(* SubprocessExecutor (src/src/python/pants/java/executor.py).             *)
(*                                                                         *)
(* A string is a sequence of one-character strings, so that endswith,     *)
(* join and split are computed character by character.  Python values     *)
(* that may be of several types are records tagged with their type.       *)
(***************************************************************************)
EXTENDS Integers, Sequences, FiniteSets, TLC

\* ------------------------------------------------------------------ bounds
MaxCp == 2          \* longest classpath list drawn as an input
MaxCalls == 3       \* API calls one thread makes
MaxTmp == 2         \* temporary file names the filesystem can hand out
MaxConcCalls == 2   \* API calls one thread makes when two threads run

\* ------------------------------------------------------- python values
PyNone == [type |-> "NoneType"]
PyInt == [type |-> "int"]
PyStr(s) == [type |-> "str", v |-> s]
PyList(l) == [type |-> "list", v |-> l]

\* bool(x) of a python value: None, 0, '' and [] are falsy
Truthy(x) == x.type \in {"str", "list"} /\ Len(x.v) > 0

\* twitter.common.collections.maybe_list on a string or a list of strings
maybe_list(x) == IF x.type = "str" THEN <<x.v>> ELSE x.v

\* `for path in classpath`: a list yields its items, a str its characters
Iterate(x) == IF x.type = "str" THEN [i \in 1..Len(x.v) |-> <<x.v[i]>>] ELSE x.v

\* ------------------------------------------------------------- strings
DotJar == <<".", "j", "a", "r">>
Space == <<" ">>
\* os.pathsep
PathSep == <<":">>

\* str.endswith
EndsWith(s, suffix) ==
  /\ Len(s) >= Len(suffix)
  /\ SubSeq(s, Len(s) - Len(suffix) + 1, Len(s)) = suffix

RECURSIVE Join(_, _)
\* sep.join(list)
Join(sep, list) ==
  IF Len(list) = 0 THEN <<>>
  ELSE IF Len(list) = 1 THEN list[1]
  ELSE list[1] \o sep \o Join(sep, Tail(list))

RECURSIVE SplitFrom(_, _, _, _)
SplitFrom(s, ch, i, cur) ==
  IF i > Len(s) THEN <<cur>>
  ELSE IF s[i] = ch THEN <<cur>> \o SplitFrom(s, ch, i + 1, <<>>)
  ELSE SplitFrom(s, ch, i + 1, Append(cur, s[i]))

\* s.split(ch) for a one-character separator
Split(s, ch) == SplitFrom(s, ch, 1, <<>>)

\* --------------------------------------------------- Executor, pure parts
\* self._distribution.java
Java == <<"j">>
DashCp == <<"-", "c", "p">>

\* the test of line 27, negated
MainValid(main) == main.type = "str" /\ Len(main.v) > 0

\* Executor._scrub_args on a valid main; `x or ()` maps a falsy x to ()
scrub_args(classpath, main, jvm_options, args) ==
  [classpath   |-> maybe_list(classpath),
   main        |-> main.v,
   jvm_options |-> IF Truthy(jvm_options) THEN maybe_list(jvm_options) ELSE <<>>,
   args        |-> IF Truthy(args) THEN maybe_list(args) ELSE <<>>]

\* a command line that puts the classpath entries as separate arguments
create_commandUnjoined(classpath, main, jvm_options, args) ==
  <<Java>> \o jvm_options \o <<DashCp>> \o classpath \o <<main>> \o args

\* Executor._create_command
create_command(classpath, main, jvm_options, args) ==
  <<Java>> \o jvm_options \o <<DashCp, Join(PathSep, classpath), main>> \o args

\* Runner.cmd: ' '.join(command)
cmd_string(command) == Join(Space, command)

RECURSIVE jar_classpath(_)
\* the loop of lines 113-119, the entries appended to jar_classpath
jar_classpath(paths) ==
  IF Len(paths) = 0 THEN <<>>
  ELSE IF EndsWith(paths[1], DotJar)
       THEN <<paths[1]>> \o jar_classpath(Tail(paths))
       ELSE jar_classpath(Tail(paths))

RECURSIVE non_jar_classpath(_)
\* the loop of lines 113-119, the entries appended to non_jar_classpath
non_jar_classpath(paths) ==
  IF Len(paths) = 0 THEN <<>>
  ELSE IF EndsWith(paths[1], DotJar)
       THEN non_jar_classpath(Tail(paths))
       ELSE <<paths[1]>> \o non_jar_classpath(Tail(paths))

\* the three entries added to the Manifest on lines 121-124
manifest(classpath) ==
  [Class_Path       |-> Join(Space, jar_classpath(Iterate(classpath))),
   Created_By       |-> "Pants_JAR_Minimizer",
   Manifest_Version |-> "1.0"]

\* the name of the temporary file p, as it appears on a command line
TmpName(p) == <<"t", p>>

\* line 130
minimized_classpath(p, classpath) == <<TmpName(p)>> \o non_jar_classpath(Iterate(classpath))

\* ---------------------------------------------------------------- inputs
PathA == <<"a">> \o DotJar
PathB == <<"b">> \o DotJar
PathSp == <<"c", " ", "d">> \o DotJar
PathDir == <<"e">>
Paths == {PathA, PathB, PathSp, PathDir}

Lists(S, n) == UNION {[1..k -> S] : k \in 0..n}

\* classpath arguments: a list of paths, or one path given as a bare string
Classpaths == {PyList(l) : l \in Lists(Paths, MaxCp)} \cup {PyStr(q) : q \in Paths}
\* main arguments: a class name, the empty string, something that is no string
Mains == {PyStr(<<"M">>), PyStr(<<>>), PyInt}
Extras == {[jvm_options |-> PyNone, args |-> PyNone],
           [jvm_options |-> PyList(<< <<"-", "x">> >>), args |-> PyStr(<<"y">>)]}

\* the executors under test: one CommandLineGrabber, and two
\* SubprocessExecutors, built with scrub_classpath=True and =False
Executors == {"grabber", "scrub", "noscrub"}
Subprocess == {"scrub", "noscrub"}

\* a call: the executor it is made on, and its arguments
Input(ex, cp, m, x) ==
  [executor |-> ex, classpath |-> cp, main |-> m,
   jvm_options |-> x.jvm_options, args |-> x.args]

AllInputs ==
  {Input(ex, cp, m, x) : ex \in Executors, cp \in Classpaths, m \in Mains, x \in Extras}

NoExtras == [jvm_options |-> PyNone, args |-> PyNone]

\* a pool whose calls differ in executor, classpath and main
MixedPool ==
  {Input(ex, cp, m, NoExtras) :
     ex \in Executors,
     cp \in {PyList(<<PathA, PathDir>>), PyList(<<PathDir>>)},
     m \in {PyStr(<<"M">>), PyStr(<<>>)}}

\* the pool of the two-thread runs
ConcPool ==
  {Input(ex, PyList(<<PathA, PathDir>>), m, NoExtras) :
     ex \in {"grabber", "scrub"}, m \in {PyStr(<<"M">>), PyStr(<<>>)}}

Threads == {1, 2}
Digits == <<"1", "2", "3", "4", "5">>
TmpPaths == {Digits[i] : i \in 1..MaxTmp}
NoPath == "none"

\* the values of os.environ['CLASSPATH']
Unset == [set |-> FALSE]
SetTo(v) == [set |-> TRUE, value |-> v]
OldJar == <<"/", "o">>
EnvValues == {Unset, SetTo(OldJar), SetTo(<<>>)}

ExitCodes == {0, 1}
OSErrors == {"ENOENT", "EACCES"}

\* files
Absent == [state |-> "absent"]
Empty == [state |-> "empty"]
JarFile(m) == [state |-> "jar", manifest |-> m]

\* results of a call
NoOutcome == [kind |-> "none"]
Return(v) == [kind |-> "return", value |-> v]
Raise(e) == [kind |-> "raise", exc |-> e, msg |-> <<>>]
\* the OSError of Popen as it would reach the caller uncaught
UncaughtOSError(e) == [kind |-> "raise", exc |-> "OSError", msg |-> <<e>>]

\* line 199
LaunchError(e) ==
  [kind |-> "raise", exc |-> "Executor.Error",
   msg |-> <<"Problem executing ">> \o Java \o <<": ">> \o <<e>>]

NoCall == [executor |-> "none", classpath |-> PyList(<<>>), main |-> PyNone,
           jvm_options |-> PyNone, args |-> PyNone]
NoRunner == [bound |-> FALSE]
NoFrame == [executor |-> "none", cmd |-> <<>>, carrier |-> NoPath, mode |-> "none", ret |-> "idle"]
NoChild == [live |-> FALSE]
NoSpawn == [spawned |-> FALSE, refused |-> FALSE]
NoApi == [op |-> "none", input |-> NoCall]

\* ----------------------------------------------------------------- state
VARIABLES
  pool,        \* the inputs the calls of this run draw from
  active,      \* the threads that make calls
  ambient,     \* CLASSPATH as it was before any call
  env,         \* os.environ['CLASSPATH'], shared by all threads
  files,       \* the temporary directory: name -> file
  command,     \* CommandLineGrabber._command
  pc,          \* per thread: where it is
  call,        \* per thread: executor and arguments of the runner() in progress
  carrier,     \* per thread: classpath_jar_filepath of the open scope
  minimized,   \* per thread: the classpath yielded by the minimizer
  heldRunner,  \* per thread: the Runner the caller holds
  frame,       \* per thread: the _spawn in progress
  saved,       \* per thread: old_environment of environment_as
  child,       \* per thread: the Popen handle
  outcome,     \* per thread: how the last call ended
  scopeExit,   \* per thread: how the last runner scope was left
  lastSpawn,   \* per thread: the Popen of the last call, and what the process saw
  lastCall,    \* per thread: the last API call made, and its input
  ncalls       \* per thread: calls made

shared == <<pool, active, ambient, env, files, command>>
vars == <<pool, active, ambient, env, files, command, pc, call, carrier, minimized,
          heldRunner, frame, saved, child, outcome, scopeExit, lastSpawn, lastCall, ncalls>>

InitThreads ==
  /\ pc = [t \in Threads |-> "idle"]
  /\ call = [t \in Threads |-> NoCall]
  /\ carrier = [t \in Threads |-> NoPath]
  /\ minimized = [t \in Threads |-> <<>>]
  /\ heldRunner = [t \in Threads |-> NoRunner]
  /\ frame = [t \in Threads |-> NoFrame]
  /\ saved = [t \in Threads |-> Unset]
  /\ child = [t \in Threads |-> NoChild]
  /\ outcome = [t \in Threads |-> NoOutcome]
  /\ scopeExit = [t \in Threads |-> "none"]
  /\ lastSpawn = [t \in Threads |-> NoSpawn]
  /\ lastCall = [t \in Threads |-> NoApi]
  /\ ncalls = [t \in Threads |-> 0]

InitShared(values) ==
  /\ ambient \in values
  /\ env = ambient
  /\ files = [p \in TmpPaths |-> Absent]
  \* line 139
  /\ command = PyNone

\* one thread, calls that differ in their arguments
Init ==
  /\ pool = MixedPool
  /\ active = {1}
  /\ InitShared(EnvValues)
  /\ InitThreads

\* ---------------------------------------------------------------- actions
\* the number of calls a thread of this run makes
CallLimit == IF Cardinality(active) > 1 THEN MaxConcCalls ELSE MaxCalls

\* thread t makes the API call op with input in
ApiCall(t, op, in) ==
  /\ pc[t] \in {"idle", "body"}
  /\ ncalls[t] < CallLimit
  /\ ncalls' = [ncalls EXCEPT ![t] = @ + 1]
  /\ lastCall' = [lastCall EXCEPT ![t] = [op |-> op, input |-> in]]
  /\ lastSpawn' = [lastSpawn EXCEPT ![t] = NoSpawn]

\* Executor.execute, lines 90-91: runner() is a generator-based context
\* manager, so the call on line 90 returns the context manager with the body
\* of runner not started, and line 91 looks up `run` on that object.
Execute(t) ==
  /\ pc[t] = "idle"
  /\ \E in \in pool : ApiCall(t, "execute", in)
  /\ outcome' = [outcome EXCEPT ![t] = Raise("AttributeError")]
  /\ UNCHANGED <<shared, pc, call, carrier, minimized, heldRunner, frame, saved, child,
                 scopeExit>>

\* `with executor.runner(classpath, main, jvm_options, args) as runner:` is
\* entered: lines 76 and 113-124 run up to the with statement of line 127
RunnerEnter(t) ==
  /\ pc[t] = "idle"
  /\ \E in \in pool :
       /\ ApiCall(t, "runner", in)
       /\ call' = [call EXCEPT ![t] = in]
  /\ pc' = [pc EXCEPT ![t] = "tmpfile"]
  /\ outcome' = [outcome EXCEPT ![t] = NoOutcome]
  /\ scopeExit' = [scopeExit EXCEPT ![t] = "none"]
  /\ UNCHANGED <<shared, carrier, minimized, heldRunner, frame, saved, child>>

\* the scope is left, but the temporary file stays behind
LeaveScopeKeepsFile(t, how) ==
  /\ files' = files
  /\ carrier' = [carrier EXCEPT ![t] = NoPath]
  /\ call' = [call EXCEPT ![t] = NoCall]
  /\ minimized' = [minimized EXCEPT ![t] = <<>>]
  /\ pc' = [pc EXCEPT ![t] = "idle"]
  /\ scopeExit' = [scopeExit EXCEPT ![t] = how]

\* the scope is left, normally or by an exception: the generator of
\* runner resumes at line 77, the with of line 127 removes the carrier, and
\* the locals of the two generators are gone
LeaveScope(t, how) ==
  /\ files' = [files EXCEPT ![carrier[t]] = Absent]
  /\ carrier' = [carrier EXCEPT ![t] = NoPath]
  /\ call' = [call EXCEPT ![t] = NoCall]
  /\ minimized' = [minimized EXCEPT ![t] = <<>>]
  /\ pc' = [pc EXCEPT ![t] = "idle"]
  /\ scopeExit' = [scopeExit EXCEPT ![t] = how]

\* line 127: temporary_file_path() creates a file under a name not in use
TempCreate(t) ==
  /\ pc[t] = "tmpfile"
  /\ \E p \in TmpPaths :
       /\ files[p] = Absent
       /\ files' = [files EXCEPT ![p] = Empty]
       /\ carrier' = [carrier EXCEPT ![t] = p]
  /\ pc' = [pc EXCEPT ![t] = "writejar"]
  /\ UNCHANGED <<pool, active, ambient, env, command, call, minimized, heldRunner, frame,
                 saved, child, outcome, scopeExit, lastSpawn, lastCall, ncalls>>

\* line 127 when the temporary file cannot be created
TempCreateFails(t) ==
  /\ pc[t] = "tmpfile"
  /\ pc' = [pc EXCEPT ![t] = "idle"]
  /\ call' = [call EXCEPT ![t] = NoCall]
  /\ outcome' = [outcome EXCEPT ![t] = Raise("OSError")]
  /\ scopeExit' = [scopeExit EXCEPT ![t] = "create_failure"]
  /\ UNCHANGED <<shared, carrier, minimized, heldRunner, frame, saved, child,
                 lastSpawn, lastCall, ncalls>>

\* lines 128-130: the manifest is written, the jar closed, and the
\* minimized classpath built
WriteJar(t) ==
  /\ pc[t] = "writejar"
  /\ files' = [files EXCEPT ![carrier[t]] = JarFile(manifest(call[t].classpath))]
  /\ minimized' = [minimized EXCEPT ![t] = minimized_classpath(carrier[t], call[t].classpath)]
  /\ pc' = [pc EXCEPT ![t] = "scrub"]
  /\ UNCHANGED <<pool, active, ambient, env, command, call, carrier, heldRunner, frame,
                 saved, child, outcome, scopeExit, lastSpawn, lastCall, ncalls>>

\* lines 128-129 fail: the with of line 127 removes the file on the way out
WriteJarFails(t) ==
  /\ pc[t] = "writejar"
  /\ LeaveScope(t, "write_failure")
  /\ outcome' = [outcome EXCEPT ![t] = Raise("IOError")]
  /\ UNCHANGED <<pool, active, ambient, env, command, heldRunner, frame,
                 saved, child, lastSpawn, lastCall, ncalls>>

\* the command line 77 assembles: _scrub_args on the minimized classpath,
\* then _create_command in _runner (lines 142, 169)
runner_command(m, c) ==
  LET a == scrub_args(PyList(m), c.main, c.jvm_options, c.args)
  IN  create_command(a.classpath, a.main, a.jvm_options, a.args)

\* line 77 with a valid main: _scrub_args, then _runner builds the Runner
\* (lines 141-154 and 168-183), which the with statement hands to the caller
Build(t) ==
  /\ pc[t] = "scrub"
  /\ MainValid(call[t].main)
  /\ LET cmd == runner_command(minimized[t], call[t])
     IN  /\ heldRunner' = [heldRunner EXCEPT ![t] =
                             [bound |-> TRUE, executor |-> call[t].executor,
                              command |-> cmd, carrier |-> carrier[t]]]
         /\ command' = IF call[t].executor = "grabber" THEN PyList(cmd) ELSE command
  /\ pc' = [pc EXCEPT ![t] = "body"]
  /\ UNCHANGED <<pool, active, ambient, env, files, call, carrier, minimized, frame, saved,
                 child, outcome, scopeExit, lastSpawn, lastCall, ncalls>>

\* line 77 with an invalid main: _scrub_args raises ValueError (line 28),
\* and the with of line 127 removes the carrier on the way out
BuildInvalid(t) ==
  /\ pc[t] = "scrub"
  /\ ~MainValid(call[t].main)
  /\ LeaveScope(t, "validation")
  /\ outcome' = [outcome EXCEPT ![t] = Raise("ValueError")]
  /\ UNCHANGED <<pool, active, ambient, env, command, heldRunner, frame,
                 saved, child, lastSpawn, lastCall, ncalls>>

\* the body of the caller's with statement ends
BodyExit(t) ==
  /\ pc[t] = "body"
  /\ LeaveScope(t, "normal")
  /\ UNCHANGED <<pool, active, ambient, env, command, heldRunner, frame,
                 saved, child, outcome, lastSpawn, lastCall, ncalls>>

\* the body of the caller's with statement raises
BodyRaise(t) ==
  /\ pc[t] = "body"
  /\ LeaveScope(t, "body_exception")
  /\ UNCHANGED <<pool, active, ambient, env, command, heldRunner, frame,
                 saved, child, outcome, lastSpawn, lastCall, ncalls>>

\* Executor.Error raised by run inside the body leaves the scope
PropagateLaunchError(t) ==
  /\ pc[t] = "run_failed"
  /\ LeaveScope(t, "launch_failure")
  /\ UNCHANGED <<pool, active, ambient, env, command, heldRunner, frame,
                 saved, child, outcome, lastSpawn, lastCall, ncalls>>

\* Executor.Error raised by run inside the body is handled in the body
CatchLaunchError(t) ==
  /\ pc[t] = "run_failed"
  /\ pc' = [pc EXCEPT ![t] = "body"]
  /\ UNCHANGED <<shared, call, carrier, minimized, heldRunner, frame, saved, child, outcome,
                 scopeExit, lastSpawn, lastCall, ncalls>>

\* a run that reports a failure exit code
GrabberRunReturnsOne(t) ==
  /\ heldRunner[t].bound
  /\ heldRunner[t].executor = "grabber"
  /\ ApiCall(t, "run", NoCall)
  /\ outcome' = [outcome EXCEPT ![t] = Return(1)]
  /\ UNCHANGED <<shared, pc, call, carrier, minimized, heldRunner, frame, saved, child,
                 scopeExit>>

\* CommandLineGrabber Runner.run, lines 152-153; the caller may call it
\* inside the scope or, holding on to the Runner, after it
GrabberRun(t) ==
  /\ heldRunner[t].bound
  /\ heldRunner[t].executor = "grabber"
  /\ ApiCall(t, "run", NoCall)
  /\ outcome' = [outcome EXCEPT ![t] = Return(0)]
  /\ UNCHANGED <<shared, pc, call, carrier, minimized, heldRunner, frame, saved, child,
                 scopeExit>>

\* SubprocessExecutor Runner.run, lines 180-181, up to the call of _spawn
SubprocessRun(t) ==
  /\ heldRunner[t].bound
  /\ heldRunner[t].executor \in Subprocess
  /\ ApiCall(t, "run", NoCall)
  /\ frame' = [frame EXCEPT ![t] =
                 [executor |-> heldRunner[t].executor, cmd |-> heldRunner[t].command,
                  carrier |-> heldRunner[t].carrier, mode |-> "run", ret |-> pc[t]]]
  /\ child' = [child EXCEPT ![t] = NoChild]
  /\ outcome' = [outcome EXCEPT ![t] = NoOutcome]
  /\ pc' = [pc EXCEPT ![t] = "env_save"]
  /\ UNCHANGED <<shared, call, carrier, minimized, heldRunner, saved, scopeExit>>

\* a spawn command whose classpath has the jar entries taken out
spawn_commandWithoutJars(in) ==
  LET a == scrub_args(in.classpath, in.main, in.jvm_options, in.args)
  IN  create_command(non_jar_classpath(a.classpath), a.main, a.jvm_options, a.args)

\* the command SubprocessExecutor.spawn assembles on line 190
spawn_command(in) ==
  LET a == scrub_args(in.classpath, in.main, in.jvm_options, in.args)
  IN  create_command(a.classpath, a.main, a.jvm_options, a.args)

\* SubprocessExecutor.spawn, lines 190-191, up to the call of _spawn
Spawn(t) ==
  /\ pc[t] = "idle"
  /\ \E in \in pool :
       /\ in.executor \in Subprocess
       /\ MainValid(in.main)
       /\ ApiCall(t, "spawn", in)
       /\ frame' = [frame EXCEPT ![t] =
                      [executor |-> in.executor, cmd |-> spawn_command(in),
                       carrier |-> NoPath, mode |-> "spawn", ret |-> "idle"]]
  /\ child' = [child EXCEPT ![t] = NoChild]
  /\ outcome' = [outcome EXCEPT ![t] = NoOutcome]
  /\ pc' = [pc EXCEPT ![t] = "env_save"]
  /\ UNCHANGED <<shared, call, carrier, minimized, heldRunner, saved, scopeExit>>

\* SubprocessExecutor.spawn with an invalid main: line 190 raises ValueError
SpawnInvalid(t) ==
  /\ pc[t] = "idle"
  /\ \E in \in pool :
       /\ in.executor \in Subprocess
       /\ ~MainValid(in.main)
       /\ ApiCall(t, "spawn", in)
  /\ outcome' = [outcome EXCEPT ![t] = Raise("ValueError")]
  /\ UNCHANGED <<shared, pc, call, carrier, minimized, heldRunner, frame, saved, child,
                 scopeExit>>

\* every SubprocessExecutor scrubs, whatever it was constructed with
scrub_classpathIgnoresFlag(t) == frame[t].executor \in Subprocess

\* line 203 for the executor of the _spawn in progress
scrub_classpath(t) == frame[t].executor = "scrub"

\* environment_as(CLASSPATH=None) on entry: the variable is removed
scrubbed(e) == Unset

\* the environment is left as the override made it
restoredNot(old, e) == e

\* environment_as on exit: the saved value is put back, a saved None
\* removes the variable
restored(old, e) == old

\* _spawn enters _maybe_scrubbed_classpath (lines 194, 203-207):
\* environment_as remembers the current value
EnvSave(t) ==
  /\ pc[t] = "env_save"
  /\ IF scrub_classpath(t)
     THEN /\ saved' = [saved EXCEPT ![t] = env]
          /\ pc' = [pc EXCEPT ![t] = "env_unset"]
     ELSE /\ saved' = saved
          /\ pc' = [pc EXCEPT ![t] = "popen"]
  /\ UNCHANGED <<shared, call, carrier, minimized, heldRunner, frame, child, outcome,
                 scopeExit, lastSpawn, lastCall, ncalls>>

\* environment_as installs the override, line 207
EnvUnset(t) ==
  /\ pc[t] = "env_unset"
  /\ env' = scrubbed(env)
  /\ pc' = [pc EXCEPT ![t] = "popen"]
  /\ UNCHANGED <<pool, active, ambient, files, command, call, carrier, minimized, heldRunner,
                 frame, saved, child, outcome, scopeExit, lastSpawn, lastCall, ncalls>>

\* line 197: the process starts; it inherits the environment as it is now
\* and will look for the files its command line names
Popen(t) ==
  /\ pc[t] = "popen"
  /\ child' = [child EXCEPT ![t] = [live |-> TRUE, cmd |-> frame[t].cmd]]
  /\ lastSpawn' = [lastSpawn EXCEPT ![t] =
                     [spawned |-> TRUE, refused |-> FALSE,
                      cmd |-> frame[t].cmd, classpath |-> env,
                      mode |-> frame[t].mode,
                      scrub |-> scrub_classpath(t),
                      carrier |-> frame[t].carrier,
                      carrierFile |-> IF frame[t].carrier = NoPath THEN Absent
                                      ELSE files[frame[t].carrier]]]
  /\ pc' = [pc EXCEPT ![t] = "env_restore"]
  /\ UNCHANGED <<shared, call, carrier, minimized, heldRunner, frame, saved, outcome,
                 scopeExit, lastCall, ncalls>>

\* lines 198-199: the operating system refuses, OSError becomes Executor.Error
PopenFails(t) ==
  /\ pc[t] = "popen"
  /\ \E e \in OSErrors :
       /\ outcome' = [outcome EXCEPT ![t] = LaunchError(e)]
       /\ lastSpawn' = [lastSpawn EXCEPT ![t] =
                          [spawned |-> FALSE, refused |-> TRUE, oserror |-> e,
                           mode |-> frame[t].mode, scrub |-> scrub_classpath(t)]]
  /\ pc' = [pc EXCEPT ![t] = "env_restore"]
  /\ UNCHANGED <<shared, call, carrier, minimized, heldRunner, frame, saved, child,
                 scopeExit, lastCall, ncalls>>

\* _spawn leaves _maybe_scrubbed_classpath, by return or by exception:
\* environment_as puts the remembered value back.  spawn() then returns the
\* handle (line 191), run() goes on to wait (line 181), and a failed launch
\* raises into the caller
EnvRestore(t) ==
  /\ pc[t] = "env_restore"
  /\ env' = IF scrub_classpath(t) THEN restored(saved[t], env) ELSE env
  /\ saved' = [saved EXCEPT ![t] = Unset]
  /\ IF child[t].live
     THEN IF frame[t].mode = "spawn"
          THEN /\ outcome' = [outcome EXCEPT ![t] = Return("handle")]
               /\ pc' = [pc EXCEPT ![t] = frame[t].ret]
               /\ frame' = [frame EXCEPT ![t] = NoFrame]
          ELSE /\ outcome' = outcome
               /\ pc' = [pc EXCEPT ![t] = "wait"]
               /\ frame' = frame
     ELSE /\ outcome' = outcome
          /\ pc' = [pc EXCEPT ![t] = IF frame[t].ret = "body" THEN "run_failed" ELSE "idle"]
          /\ frame' = [frame EXCEPT ![t] = NoFrame]
  /\ UNCHANGED <<pool, active, ambient, files, command, call, carrier, minimized, heldRunner,
                 child, scopeExit, lastSpawn, lastCall, ncalls>>

\* a run that returns a code while the child is still running
WaitReturnsEarly(t) ==
  /\ pc[t] = "wait"
  /\ \E code \in ExitCodes : outcome' = [outcome EXCEPT ![t] = Return(code)]
  /\ pc' = [pc EXCEPT ![t] = frame[t].ret]
  /\ frame' = [frame EXCEPT ![t] = NoFrame]
  /\ UNCHANGED <<shared, call, carrier, minimized, heldRunner, saved, child, scopeExit,
                 lastSpawn, lastCall, ncalls>>

\* line 181: wait() returns the exit code of the child
Wait(t) ==
  /\ pc[t] = "wait"
  /\ \E code \in ExitCodes :
       /\ outcome' = [outcome EXCEPT ![t] = Return(code)]
       /\ child' = [child EXCEPT ![t] = [live |-> FALSE, cmd |-> child[t].cmd, code |-> code]]
  /\ pc' = [pc EXCEPT ![t] = frame[t].ret]
  /\ frame' = [frame EXCEPT ![t] = NoFrame]
  /\ UNCHANGED <<shared, call, carrier, minimized, heldRunner, saved, scopeExit,
                 lastSpawn, lastCall, ncalls>>

\* Runner.cmd of the Runner r: the CommandLineGrabber's Runner joins the
\* executor's _command as it is when cmd is read (lines 148-150), the
\* SubprocessExecutor's Runner joins the command of its own call (176-178)
runner_cmd(r) ==
  IF r.executor = "grabber" THEN cmd_string(command.v) ELSE cmd_string(r.command)

\* ---------------------------------------------------------- specifications
Next ==
  \/ \E t \in active : Execute(t)
  \/ \E t \in active : RunnerEnter(t)
  \/ \E t \in active : TempCreate(t)
  \/ \E t \in active : TempCreateFails(t)
  \/ \E t \in active : WriteJar(t)
  \/ \E t \in active : WriteJarFails(t)
  \/ \E t \in active : Build(t)
  \/ \E t \in active : BuildInvalid(t)
  \/ \E t \in active : BodyExit(t)
  \/ \E t \in active : BodyRaise(t)
  \/ \E t \in active : PropagateLaunchError(t)
  \/ \E t \in active : CatchLaunchError(t)
  \/ \E t \in active : GrabberRun(t)
  \/ \E t \in active : SubprocessRun(t)
  \/ \E t \in active : Spawn(t)
  \/ \E t \in active : SpawnInvalid(t)
  \/ \E t \in active : EnvSave(t)
  \/ \E t \in active : EnvUnset(t)
  \/ \E t \in active : Popen(t)
  \/ \E t \in active : PopenFails(t)
  \/ \E t \in active : EnvRestore(t)
  \/ \E t \in active : Wait(t)

Spec == Init /\ [][Next]_vars

\* one thread, one set of arguments per run, drawn from all inputs
InitArgs ==
  /\ pool \in {{in} : in \in AllInputs}
  /\ active = {1}
  /\ InitShared(EnvValues)
  /\ InitThreads

SpecArgs == InitArgs /\ [][Next]_vars

\* two threads of one process
InitConc ==
  /\ pool = ConcPool
  /\ active = Threads
  /\ InitShared({Unset, SetTo(OldJar)})
  /\ InitThreads

SpecConc == InitConc /\ [][Next]_vars

\* ------------------------------------------------------------- properties
\* sub occurs in s
Contains(s, sub) ==
  \E i \in 0..(Len(s) - Len(sub)) : SubSeq(s, i + 1, i + Len(sub)) = sub

\* thread t is inside _spawn
InSpawn(t) == pc[t] \in {"env_save", "env_unset", "popen", "env_restore", "wait"}

\* thread t is between the creation of its temporary file and the exit of
\* the runner scope
InScope(t) ==
  \/ pc[t] \in {"writejar", "scrub", "body", "run_failed"}
  \/ InSpawn(t) /\ frame[t].ret = "body"

\* thread t is at the yield of line 131
Yielded(t) == pc[t] = "scrub"

\* C1: execute on a valid input ends by returning the exit code of the run
\* (0 on a CommandLineGrabber), or else in Executor.Error, and in no other
\* error.
ExecuteReturnsExitCode ==
  \A t \in active :
    (lastCall[t].op = "execute" /\ MainValid(lastCall[t].input.main))
      => \/ /\ outcome[t].kind = "return"
            /\ lastCall[t].input.executor = "grabber" => outcome[t].value = 0
         \/ /\ outcome[t].kind = "raise"
            /\ outcome[t].exc = "Executor.Error"

\* C2: every execute call with an empty or non-string main ends in
\* ValueError, spawns no process and leaves CommandLineGrabber._command as
\* it was.
ExecuteInvalidMainValueError ==
  [][\A t \in active :
       (/\ lastCall'[t].op = "execute"
        /\ ncalls'[t] = ncalls[t] + 1
        /\ ~MainValid(lastCall'[t].input.main))
         => /\ outcome'[t].kind = "raise"
            /\ outcome'[t].exc = "ValueError"
            /\ ~lastSpawn'[t].spawned
            /\ command' = command]_vars

\* C3: a carrier archive exists only while the runner scope that created it
\* is open: once the scope has been left, on any path, the file is gone.
CarrierGoneAfterScope ==
  \A p \in TmpPaths :
    files[p] # Absent => \E t \in active : InScope(t) /\ carrier[t] = p

\* a scope was left because run failed to launch, and no file is left
CarrierGoneWitness ==
  /\ scopeExit[1] = "launch_failure"
  /\ pc[1] = "idle"
  /\ lastSpawn[1].refused
  /\ \A p \in TmpPaths : files[p] = Absent

\* C4: whenever a Runner's run spawns a process, the carrier archive named
\* in its command line exists.
RunOnlyWhileCarrierExists ==
  \A t \in active :
    (lastSpawn[t].spawned /\ lastSpawn[t].mode = "run")
      => lastSpawn[t].carrierFile.state = "jar"

\* C5: one thread, scrubbing enabled: the process is spawned with CLASSPATH
\* absent, and whenever the thread is outside the override of _spawn,
\* CLASSPATH is what it was before the call (set to the same value, or
\* absent), whether Popen succeeded or was refused.
ScrubbedThenRestored ==
  \A t \in active :
    /\ (lastSpawn[t].spawned /\ lastSpawn[t].scrub) => lastSpawn[t].classpath = Unset
    /\ (pc[t] \in {"popen", "env_restore"} /\ scrub_classpath(t)) => env = Unset
    /\ pc[t] \notin {"popen", "env_restore"} => env = ambient

\* a scrubbed run has spawned its process and returned, CLASSPATH was set
ScrubbedThenRestoredWitness ==
  /\ ambient = SetTo(OldJar)
  /\ lastSpawn[1].spawned
  /\ lastSpawn[1].scrub
  /\ lastSpawn[1].mode = "run"
  /\ pc[1] = "idle"
  /\ outcome[1].kind = "return"
  /\ env = SetTo(OldJar)

\* C6: two threads, scrubbing enabled: every spawned child sees no
\* CLASSPATH, and when no thread is inside the override CLASSPATH is what it
\* was before either launch.
ScrubWindowsDoNotLeak ==
  /\ \A t \in active :
       (lastSpawn[t].spawned /\ lastSpawn[t].scrub) => lastSpawn[t].classpath = Unset
  /\ (\A t \in active : pc[t] \notin {"env_unset", "popen", "env_restore"}) => env = ambient

\* C7: for a classpath without an entry ending in '.jar' the minimizer
\* yields the classpath as given and creates no carrier archive.
NoJarClasspathUnchanged ==
  \A t \in active :
    (Yielded(t) /\ jar_classpath(Iterate(call[t].classpath)) = <<>>)
      => /\ minimized[t] = maybe_list(call[t].classpath)
         /\ carrier[t] = NoPath
         /\ \A p \in TmpPaths : files[p] = Absent

\* C8: for a classpath with an entry ending in '.jar' the minimizer yields
\* the carrier path followed by the non-jar entries in order, and the
\* Class-Path of the carrier's manifest, split on spaces, is the list of the
\* jar entries in order.
JarClasspathInManifest ==
  \A t \in active :
    (Yielded(t) /\ jar_classpath(Iterate(call[t].classpath)) # <<>>)
      => /\ minimized[t] = <<TmpName(carrier[t])>> \o non_jar_classpath(Iterate(call[t].classpath))
         /\ Len(minimized[t]) = 1 + Len(non_jar_classpath(Iterate(call[t].classpath)))
         /\ files[carrier[t]].state = "jar"
         /\ Split(files[carrier[t]].manifest.Class_Path, " ")
              = jar_classpath(Iterate(call[t].classpath))

\* C9: in runner, a call with an empty or non-string main touches no file:
\* at no point of such a call has a temporary file been created for it.
ValidationBeforeCarrier ==
  \A t \in active :
    (pc[t] \in {"tmpfile", "writejar", "scrub"} /\ ~MainValid(call[t].main))
      => /\ carrier[t] = NoPath
         /\ \A p \in TmpPaths : files[p] = Absent

\* C10: when the operating system refuses the Popen of a run or spawn, the
\* call ends in Executor.Error whose message names the java path and the OS
\* error, not in OSError, and no child handle exists.
RefusedLaunchIsExecutorError ==
  \A t \in active :
    lastSpawn[t].refused
      => /\ outcome[t].kind = "raise"
         /\ outcome[t].exc = "Executor.Error"
         /\ Contains(outcome[t].msg, Java)
         /\ Contains(outcome[t].msg, <<lastSpawn[t].oserror>>)
         /\ ~child[t].live

\* a spawn() was refused and has raised into its caller
RefusedLaunchWitness ==
  /\ lastSpawn[1].refused
  /\ lastSpawn[1].mode = "spawn"
  /\ pc[1] = "idle"
  /\ outcome[1].kind = "raise"

\* C11: when the minimizer fails (the temporary file cannot be created, or
\* the carrier cannot be written), the runner() call ends in Executor.Error.
MinimizerFailureIsLaunchError ==
  \A t \in active :
    (lastCall[t].op = "runner" /\ scopeExit[t] \in {"create_failure", "write_failure"})
      => /\ outcome[t].kind = "raise"
         /\ outcome[t].exc = "Executor.Error"

\* an optional argument as the sequence the caller means by it
AsList(x) ==
  IF x.type = "list" THEN x.v
  ELSE IF x.type = "str" /\ Len(x.v) > 0 THEN <<x.v>>
  ELSE <<>>

\* cmd is java, the options, '-cp', the joined classpath, main, the args
CommandHasLayout(cmd, cp, main, opts, args) ==
  /\ Len(cmd) = Len(opts) + Len(args) + 4
  /\ cmd[1] = Java
  /\ \A i \in 1..Len(opts) : cmd[1 + i] = opts[i]
  /\ cmd[Len(opts) + 2] = DashCp
  /\ cmd[Len(opts) + 3] = Join(PathSep, cp)
  /\ cmd[Len(opts) + 4] = main
  /\ \A i \in 1..Len(args) : cmd[Len(opts) + 4 + i] = args[i]

NotJar(q) == ~EndsWith(q, DotJar)

GrabberRunHasNoEffect ==
  [][\A t \in active :
       /\ (/\ heldRunner[t].bound
           /\ heldRunner[t].executor = "grabber"
           /\ lastCall'[t].op = "run"
           /\ ncalls'[t] = ncalls[t] + 1)
            => /\ outcome'[t] = Return(0)
               /\ ~lastSpawn'[t].spawned
               /\ ~lastSpawn'[t].refused
               /\ UNCHANGED <<env, files, command, child, pc>>
       /\ (pc[t] = "scrub" /\ pc'[t] = "body" /\ call[t].executor = "grabber")
            => /\ command' = PyList(heldRunner'[t].command)
               /\ UNCHANGED <<env, files, child>>]_vars

\* a CommandLineGrabber Runner was run after its scope and returned 0
GrabberRunWitness ==
  /\ lastCall[1].op = "run"
  /\ heldRunner[1].bound
  /\ heldRunner[1].executor = "grabber"
  /\ outcome[1] = Return(0)
  /\ scopeExit[1] = "normal"
  /\ pc[1] = "idle"

\* C14: the cmd string of every Runner a caller holds is the command that
\* was assembled for the runner() call that made it, whatever runner() calls
\* were made on the same executor since.
RunnerCmdIsItsOwnCommand ==
  \A t \in active :
    heldRunner[t].bound => runner_cmd(heldRunner[t]) = cmd_string(heldRunner[t].command)

\* C15: for a classpath given as one path string p, runner yields the
\* minimized classpath, writes the manifest and builds the command that it
\* would for the list [p].
SingleStringClasspathAsList ==
  \A t \in active :
    /\ (Yielded(t) /\ call[t].classpath.type = "str")
         => /\ minimized[t] = minimized_classpath(carrier[t], PyList(<<call[t].classpath.v>>))
            /\ files[carrier[t]] = JarFile(manifest(PyList(<<call[t].classpath.v>>)))
    /\ (pc[t] = "body" /\ call[t].classpath.type = "str")
         => heldRunner[t].command =
              runner_command(minimized_classpath(carrier[t], PyList(<<call[t].classpath.v>>)),
                             call[t])

\* thread t is in the _spawn of a run on a scrubbing SubprocessExecutor
InScrubbedRun(t) == InSpawn(t) /\ frame[t].mode = "run" /\ scrub_classpath(t)

\* C16: one run with scrubbing goes save, unset, spawn, restore, wait:
\* CLASSPATH is saved and still set when nothing is spawned yet, absent from
\* the unset until after the spawn, back at its old value when run waits
\* for the child, and run returns only once the child has exited, with the
\* child's exit code.
ScrubOnlyAroundPopen ==
  \A t \in active :
    /\ (InScrubbedRun(t) /\ pc[t] = "env_unset")
         => saved[t] = ambient /\ env = ambient /\ ~lastSpawn[t].spawned
    /\ (InScrubbedRun(t) /\ pc[t] = "popen")
         => env = Unset /\ ~lastSpawn[t].spawned /\ ~child[t].live
    /\ (InScrubbedRun(t) /\ pc[t] = "env_restore" /\ lastSpawn[t].spawned)
         => env = Unset /\ lastSpawn[t].classpath = Unset /\ child[t].live
    /\ (InScrubbedRun(t) /\ pc[t] = "wait")
         => env = ambient /\ lastSpawn[t].spawned /\ child[t].live
    /\ (lastSpawn[t].spawned /\ lastSpawn[t].mode = "run" /\ ~InSpawn(t))
         => /\ ~child[t].live
            /\ outcome[t] = Return(child[t].code)

\* a scrubbed run waits for its child, CLASSPATH already back at its value
ScrubOnlyAroundPopenWitness ==
  /\ InScrubbedRun(1)
  /\ pc[1] = "wait"
  /\ ambient = SetTo(OldJar)
  /\ env = SetTo(OldJar)
  /\ lastSpawn[1].classpath = Unset

\* C17: two threads: from the yield on, the carrier of an open scope is a
\* closed jar holding the manifest of its call; two open scopes never share
\* a carrier path; and no spawned process finds the carrier its command
\* line names created but not yet written.
CarrierNeverSeenHalfWritten ==
  /\ \A t \in active :
       (InScope(t) /\ pc[t] # "writejar")
         => files[carrier[t]] = JarFile(manifest(call[t].classpath))
  /\ \A t1 \in active, t2 \in active :
       (t1 # t2 /\ InScope(t1) /\ InScope(t2)) => carrier[t1] # carrier[t2]
  /\ \A t \in active :
       (lastSpawn[t].spawned /\ lastSpawn[t].carrier # NoPath)
         => lastSpawn[t].carrierFile.state # "empty"

\* C18: a run or spawn on a SubprocessExecutor built with
\* scrub_classpath=False leaves CLASSPATH at its value before the call in
\* every state of the call and after it, and its child is spawned with that
\* value.
NoScrubLeavesClasspath ==
  \A t \in active :
    /\ (InSpawn(t) /\ frame[t].executor = "noscrub") => env = ambient
    /\ ((lastSpawn[t].spawned \/ lastSpawn[t].refused) /\ ~lastSpawn[t].scrub)
         => env = ambient
    /\ (lastSpawn[t].spawned /\ ~lastSpawn[t].scrub) => lastSpawn[t].classpath = ambient

\* a child of a non-scrubbing executor was spawned with CLASSPATH present
NoScrubWitness ==
  /\ ambient = SetTo(OldJar)
  /\ lastSpawn[1].spawned
  /\ ~lastSpawn[1].scrub
  /\ lastSpawn[1].classpath = SetTo(OldJar)
  /\ pc[1] = "idle"

\* C19: spawn with an empty or non-string main ends in ValueError with no
\* process spawned and CLASSPATH untouched; spawn creates no temporary file;
\* the -cp token of the command it spawns is the classpath as given, joined
\* by the path separator; and it returns the handle of a child that has not
\* been waited for.
SpawnIsLiteralAndNonBlocking ==
  \A t \in active :
    lastCall[t].op = "spawn"
      => /\ carrier[t] = NoPath
         /\ \A p \in TmpPaths : files[p] = Absent
         /\ ~(pc[t] = "wait")
         /\ ~MainValid(lastCall[t].input.main)
              => /\ outcome[t] = Raise("ValueError")
                 /\ lastSpawn[t] = NoSpawn
                 /\ pc[t] = "idle"
                 /\ env = ambient
         /\ lastSpawn[t].spawned
              => /\ lastSpawn[t].carrier = NoPath
                 /\ lastSpawn[t].cmd[Len(AsList(lastCall[t].input.jvm_options)) + 3]
                      = Join(PathSep, AsList(lastCall[t].input.classpath))
                 /\ child[t] = [live |-> TRUE, cmd |-> lastSpawn[t].cmd]
         /\ outcome[t].kind = "return"
              => /\ outcome[t].value = "handle"
                 /\ lastSpawn[t].spawned
                 /\ pc[t] = "idle"

\* spawn has returned the handle of a live child whose classpath holds a jar
SpawnWitness ==
  /\ lastCall[1].op = "spawn"
  /\ lastCall[1].input.classpath = PyList(<<PathA, PathDir>>)
  /\ outcome[1] = Return("handle")
  /\ child[1].live
  /\ lastSpawn[1].cmd[2] = DashCp
  /\ lastSpawn[1].cmd[3] = PathA \o PathSep \o PathDir

====
